---- MODULE Spec2Model ----
(***************************************************************************)
(* playwright-smart-reporter: the SmartReporter class (history store,      *)
(* flakiness and performance signals, run life cycle) as a state machine.  *)
(*                                                                         *)
(* JavaScript numbers are IEEE-754 doubles, and the quotients the reporter *)
(* computes (failures / length, sum / length, (current - average) /        *)
(* average) are rounded to 53 significant bits, to nearest, ties to even.  *)
(* They are modelled bit-exactly.  A double is a record                    *)
(*     [k |-> "zero" | "fin" | "inf" | "nan", s |-> 1 | -1, m, e]          *)
(* that stands for s * m * 2^e, where m is the 53-bit significand followed *)
(* by 7 zero guard bits, a natural number 2^59 <= m < 2^60, held           *)
(* in four limbs of 15 bits, least significant limb first.  Durations are  *)
(* integers well inside the normal range, so subnormals and overflow do    *)
(* not arise.                                                              *)
(***************************************************************************)
EXTENDS Integers, Sequences, FiniteSets, TLC

(***************************************************************************)
(* Bounds of the model.                                                    *)
(***************************************************************************)
\* reporter instances constructed one after the other on the same files
MaxRuns == 2

\* test-completion events per run
MaxEvents == 2

\* largest maxHistoryRuns option given to the constructor in Spec
MaxRetention == 2

\* longest prior history drawn in SpecSignal
MaxPrior == 10

(***************************************************************************)
(* Natural numbers in limbs of 15 bits, least significant limb first.      *)
(***************************************************************************)
LimbBase == 2^15

HalfBase == 2^14

GuardUnit == 2^7

GuardHalf == 2^6

Limb(a, i) == IF i \in 1..Len(a) THEN a[i] ELSE 0

BigZero == <<0, 0, 0, 0>>

\* a >= b for numbers of at most five limbs: above every limb where a is the
\* smaller there is one where a is the larger
BigGeq(a, b) ==
  \A i \in 1..5 : Limb(a, i) < Limb(b, i) => \E j \in (i + 1)..5 : Limb(a, j) > Limb(b, j)

\* carries (or borrows) carried upwards through raw limb values; the top limb
\* keeps what is carried into it
RECURSIVE Carry(_, _)
Carry(raw, c) ==
  IF Len(raw) = 1 THEN <<raw[1] + c>>
  ELSE <<(raw[1] + c) % LimbBase>> \o Carry(Tail(raw), (raw[1] + c) \div LimbBase)

\* a + b, four limbs
BigAdd(a, b) == Carry(<<a[1] + b[1], a[2] + b[2], a[3] + b[3], a[4] + b[4]>>, 0)

\* a - b for a >= b, over the limbs of a
BigSub(a, b) == Carry([i \in 1..Len(a) |-> a[i] - Limb(b, i)], 0)

\* q * d for a digit d < LimbBase, five limbs
BigMulDigit(q, d) == Carry(<<q[1] * d, q[2] * d, q[3] * d, q[4] * d, 0>>, 0)

\* floor(a / 2^k), four limbs
BigShr(a, k) ==
  [i \in 1..4 |-> (Limb(a, i + (k \div 15)) \div 2^(k % 15))
                  + (Limb(a, i + (k \div 15) + 1) % 2^(k % 15)) * 2^(15 - (k % 15))]

\* a mod 2^k # 0
BigLostBits(a, k) ==
  \/ \E i \in 1..4 : i <= k \div 15 /\ a[i] # 0
  \/ Limb(a, (k \div 15) + 1) % 2^(k % 15) # 0

\* one quotient digit for the five-limb dividend r5 < q * LimbBase: the
\* largest digit at most est whose multiple of q fits, and the remainder
RECURSIVE DivCorrect(_, _, _)
DivCorrect(r5, q, est) ==
  IF BigGeq(r5, BigMulDigit(q, est))
  THEN <<est, SubSeq(BigSub(r5, BigMulDigit(q, est)), 1, 4)>>
  ELSE DivCorrect(r5, q, est - 1)

\* floor(r * LimbBase / q) and the remainder, for r < q, q[4] >= HalfBase; the
\* estimate from the leading limbs is never too small
DivDigit(r, q) ==
  DivCorrect(<<0, r[1], r[2], r[3], r[4]>>, q,
             IF (r[4] * LimbBase + r[3]) \div q[4] > LimbBase - 1 THEN LimbBase - 1
             ELSE (r[4] * LimbBase + r[3]) \div q[4])

\* the k digits after s[1] of the quotient by q, s = <<digit, remainder>>, and
\* the last remainder
RECURSIVE DivDigits(_, _, _)
DivDigits(s, q, k) ==
  IF k = 1 THEN <<s[1], s[2]>>
  ELSE <<s[1]>> \o DivDigits(DivDigit(s[2], q), q, k - 1)

\* the significand with the carry out of rounding applied
Carried(m, e, sign) ==
  IF m[4] >= LimbBase
  THEN [k |-> "fin", s |-> sign, m |-> <<0, 0, 0, HalfBase>>, e |-> e + 1]
  ELSE [k |-> "fin", s |-> sign, m |-> m, e |-> e]

\* round the 60-bit significand m (with a sticky fraction below it) to 53 bits,
\* to nearest, ties to even
Round53(m, sticky, e, sign) ==
  IF \/ m[1] % GuardUnit > GuardHalf
     \/ m[1] % GuardUnit = GuardHalf /\ (sticky \/ (m[1] \div GuardUnit) % 2 = 1)
  THEN Carried(BigAdd(<<m[1] - (m[1] % GuardUnit), m[2], m[3], m[4]>>,
                      <<GuardUnit, 0, 0, 0>>), e, sign)
  ELSE Carried(<<m[1] - (m[1] % GuardUnit), m[2], m[3], m[4]>>, e, sign)

FZero == [k |-> "zero", s |-> 1, m |-> BigZero, e |-> 0]

FNaN == [k |-> "nan", s |-> 1, m |-> BigZero, e |-> 0]

FInf(sign) == [k |-> "inf", s |-> sign, m |-> <<0, 0, 0, HalfBase>>, e |-> 2000]

\* scale a non-zero natural below 2^60 to HalfBase <= m[4] < LimbBase
RECURSIVE NormaliseUp(_, _)
NormaliseUp(m, e) ==
  IF m[4] >= HalfBase THEN [m |-> m, e |-> e]
  ELSE IF m[4] = 0 THEN NormaliseUp(<<0, m[1], m[2], m[3]>>, e - 15)
  ELSE NormaliseUp(BigAdd(m, m), e - 1)

\* the double from the normalised magnitude u
Normalised(u, sign) == [k |-> "fin", s |-> sign, m |-> u.m, e |-> u.e]

\* the double of an integer below 2^30 in magnitude
FromInt(n) ==
  IF n = 0 THEN FZero
  ELSE IF n < 0
  THEN Normalised(NormaliseUp(<<(-n) % LimbBase, (-n) \div LimbBase, 0, 0>>, 0), -1)
  ELSE Normalised(NormaliseUp(<<n % LimbBase, n \div LimbBase, 0, 0>>, 0), 1)

\* the quotient rounded: ds holds the four digits after the leading 1 and the
\* last remainder
Quotient(ds, e, sign) ==
  Round53(<< (ds[4] \div 2) + (ds[3] % 2) * HalfBase,
             (ds[3] \div 2) + (ds[2] % 2) * HalfBase,
             (ds[2] \div 2) + (ds[1] % 2) * HalfBase,
             (ds[1] \div 2) + HalfBase >>,
          ds[4] % 2 = 1 \/ ds[5] # BigZero, e, sign)

\* x / y for finite non-zero x, y
DivFinite(x, y) ==
  IF BigGeq(x.m, y.m)
  THEN Quotient(DivDigits(DivDigit(BigSub(x.m, y.m), y.m), y.m, 4),
                x.e - y.e - 59, x.s * y.s)
  ELSE Quotient(DivDigits(DivDigit(BigSub(BigAdd(x.m, x.m), y.m), y.m), y.m, 4),
                x.e - y.e - 60, x.s * y.s)

FDiv(x, y) ==
  IF x.k = "nan" \/ y.k = "nan" THEN FNaN
  ELSE IF y.k = "zero" THEN (IF x.k = "zero" THEN FNaN ELSE FInf(x.s * y.s))
  ELSE IF x.k = "zero" THEN FZero
  ELSE IF x.k = "inf" THEN (IF y.k = "inf" THEN FNaN ELSE FInf(x.s * y.s))
  ELSE IF y.k = "inf" THEN FZero
  ELSE DivFinite(x, y)

FNeg(x) == [x EXCEPT !.s = -x.s]

FAbs(x) == [x EXCEPT !.s = 1]

MagLess(x, y) ==
  \/ x.e < y.e
  \/ x.e = y.e /\ x.m # y.m /\ BigGeq(y.m, x.m)

\* the sum t of aligned significands, rounded
SumRounded(t, sticky, e, sign) ==
  IF t[4] >= LimbBase
  THEN Round53(BigShr(t, 1), sticky \/ t[1] % 2 = 1, e + 1, sign)
  ELSE Round53(t, sticky, e, sign)

\* the difference d of aligned significands, rounded
DifferenceRounded(d, sticky, e, sign) ==
  IF d = BigZero /\ ~sticky THEN FZero
  ELSE Round53(NormaliseUp(d, e).m, sticky, NormaliseUp(d, e).e, sign)

\* hi + lo in magnitude, for |hi| >= |lo|
AddMagnitudes(hi, lo, sign) ==
  SumRounded(BigAdd(hi.m, BigShr(lo.m, hi.e - lo.e)),
             BigLostBits(lo.m, hi.e - lo.e), hi.e, sign)

\* hi - lo in magnitude, for |hi| >= |lo|
SubMagnitudes(hi, lo, sign) ==
  IF BigLostBits(lo.m, hi.e - lo.e)
  THEN DifferenceRounded(BigSub(BigSub(hi.m, BigShr(lo.m, hi.e - lo.e)), <<1, 0, 0, 0>>),
                         TRUE, hi.e, sign)
  ELSE DifferenceRounded(BigSub(hi.m, BigShr(lo.m, hi.e - lo.e)), FALSE, hi.e, sign)

AddOrdered(hi, lo) ==
  IF hi.s = lo.s THEN AddMagnitudes(hi, lo, hi.s) ELSE SubMagnitudes(hi, lo, hi.s)

\* x + y for finite non-zero x, y
AddFinite(x, y) ==
  AddOrdered(IF MagLess(x, y) THEN y ELSE x, IF MagLess(x, y) THEN x ELSE y)

FSub(x, y) ==
  IF x.k = "nan" \/ y.k = "nan" THEN FNaN
  ELSE IF y.k = "zero" THEN x
  ELSE IF x.k = "zero" THEN FNeg(y)
  ELSE IF x.k = "inf" \/ y.k = "inf"
       THEN (IF x.k = "inf" /\ y.k = "inf" /\ x.s = y.s THEN FNaN
             ELSE IF x.k = "inf" THEN x ELSE FNeg(y))
  ELSE AddFinite(x, FNeg(y))

FSign(x) == IF x.k = "zero" THEN 0 ELSE x.s

FLess(x, y) ==
  /\ x.k # "nan"
  /\ y.k # "nan"
  /\ IF FSign(x) # FSign(y) THEN FSign(x) < FSign(y)
     ELSE IF FSign(x) = 0 THEN FALSE
     ELSE IF FSign(x) = 1 THEN MagLess(x, y)
     ELSE MagLess(y, x)

\* the double a decimal literal num/den denotes: 0.1 is Literal(1, 10)
Literal(num, den) == FDiv(FromInt(num), FromInt(den))

\* the product p of a significand by 100, rounded
ProductRounded(p, sh, e, sign) == Round53(BigShr(p, sh), BigLostBits(p, sh), e + sh, sign)

\* x * 100
FMul100(x) ==
  IF x.k # "fin" THEN x
  ELSE ProductRounded(BigMulDigit(x.m, 100),
                      IF BigMulDigit(x.m, 100)[5] >= 2^6 THEN 7 ELSE 6, x.e, x.s)

\* Math.round(x) for finite 0 <= x < 2^30: floor(x + 1/2)
MathRound(x) ==
  IF x.k = "zero" \/ x.e < -60 THEN 0
  ELSE BigShr(x.m, -x.e)[1] + BigShr(x.m, -x.e)[2] * LimbBase
       + (BigShr(x.m, -x.e - 1)[1] % 2)

\* `${Math.round(x)}`
RoundedText(x) ==
  IF x.k = "nan" THEN "NaN"
  ELSE IF x.k = "inf" THEN (IF x.s = 1 THEN "Infinity" ELSE "-Infinity")
  ELSE ToString(MathRound(x))

(***************************************************************************)
(* Inputs of the model: test cases as the host reports them (file is the   *)
(* path relative to the root directory), statuses, durations, options.     *)
(***************************************************************************)
TestCases ==
  { [file |-> "a", title |-> "b"],
    [file |-> "a", title |-> ":b"],
    [file |-> "a:", title |-> "b"] }

\* TestResult.status
Statuses == {"passed", "failed", "skipped", "timedOut", "interrupted"}

\* the statuses, durations and API keys of the runs of Spec
RunStatuses == {"passed", "failed"}

RunDurations == {100}

RunKeys == {"none", "anthropic"}

\* constructor defaults
DefaultMaxHistoryRuns == 10

DefaultPerformanceThreshold == Literal(1, 5)

\* the literals of getFlakinessIndicator
StableBelow == Literal(1, 10)

UnstableBelow == Literal(3, 10)

(***************************************************************************)
(* JavaScript values as JSON.parse yields them and this.history holds      *)
(* them: null, a primitive, an array (with named properties, if any were   *)
(* set on it), an object.  Test ids contain "::", so no key of the model   *)
(* names a built-in property.                                              *)
(***************************************************************************)
Undefined == [t |-> "undefined"]

Null == [t |-> "null"]

\* a number other than 0, such as 5
Num == [t |-> "num"]

EmptyProps == [key \in {} |-> Undefined]

Arr(items) == [t |-> "arr", items |-> items, props |-> EmptyProps]

Obj(props) == [t |-> "obj", props |-> props]

EmptyObj == Obj(EmptyProps)

\* v[key] for v other than null and undefined
Get(v, key) ==
  IF v.t \in {"obj", "arr"} /\ key \in DOMAIN v.props THEN v.props[key] ELSE Undefined

\* v[key] = val for an object or array v
Set(v, key, val) ==
  [v EXCEPT !.props = [x \in DOMAIN v.props \cup {key} |->
                         IF x = key THEN val ELSE v.props[x]]]

Truthy(v) == v.t \notin {"undefined", "null"}

\* a slice that keeps the oldest elements instead of the newest
SliceOldest(items, start) == SubSeq(items, 1, -start)

\* items.slice(start) for start <= 0
Slice(items, start) ==
  LET from == IF Len(items) + start < 0 THEN 0 ELSE Len(items) + start
  IN  IF start = 0 THEN items ELSE SubSeq(items, from + 1, Len(items))

(***************************************************************************)
(* The history file: absent, text that does not parse, or a JSON document. *)
(***************************************************************************)
Absent == [kind |-> "absent"]

Garbage == [kind |-> "garbage"]

\* the file just opened for writing: it exists and is empty
Truncated == [kind |-> "empty"]

Doc(v) == [kind |-> "json", val |-> v]

\* JSON.stringify(value, null, 2): the document written.  Named properties of
\* an array are not serialised.
Stringify(v) ==
  IF v.t = "arr" THEN Doc(Arr(v.items))
  ELSE IF v.t = "obj"
  THEN Doc(Obj([key \in DOMAIN v.props |->
                  IF v.props[key].t = "arr" THEN Arr(v.props[key].items)
                  ELSE v.props[key]]))
  ELSE Doc(v)

\* the length of an entry in the text of JSON.stringify(value, null, 2), its
\* brace indented by indent: three lines "passed", "duration", "timestamp" (an
\* ISO time of 24 characters) between the lines of the braces
EntryLength(entry, indent) ==
  4 * indent + 75 + (IF entry.passed THEN 4 ELSE 5) + Len(ToString(entry.duration))

RECURSIVE ItemsLength(_, _)
ItemsLength(items, indent) ==
  IF items = <<>> THEN 0
  ELSE indent + EntryLength(Head(items), indent) + ItemsLength(Tail(items), indent)

\* the length of a value other than an object, on a line indented by indent
ValueLength(v, indent) ==
  IF v.t = "null" THEN 4
  ELSE IF v.t = "num" THEN 1
  ELSE IF v.items = <<>> THEN 2
  ELSE 2 + ItemsLength(v.items, indent + 2) + 2 * (Len(v.items) - 1) + 1 + indent + 1

RECURSIVE MembersLength(_, _)
MembersLength(props, keys) ==
  IF keys = {} THEN 0
  ELSE LET key == CHOOSE k \in keys : TRUE
       IN  2 + Len(key) + 2 + 2 + ValueLength(props[key], 2)
           + MembersLength(props, keys \ {key})

\* the length of the text of a document
TextLength(file) ==
  IF file.val.t # "obj" THEN ValueLength(file.val, 0)
  ELSE IF DOMAIN file.val.props = {} THEN 2
  ELSE 2 + MembersLength(file.val.props, DOMAIN file.val.props)
       + 2 * (Cardinality(DOMAIN file.val.props) - 1) + 2

\* the file after text is written at offset 0 of the file current, by a
\* process that opened the file before current was written: a longer current
\* keeps its tail after the text, which then does not parse
OverlaidBy(text, current) ==
  IF current.kind \in {"absent", "empty"} THEN {text}
  ELSE IF current.kind = "json"
  THEN (IF TextLength(current) > TextLength(text) THEN {Garbage} ELSE {text})
  ELSE {text, Garbage}

\* a load that ignores the file
loadHistoryIgnoringFile(historyBefore, file) == historyBefore

\* loadHistory: this.history after it, given this.history before it
loadHistory(historyBefore, file) ==
  IF file.kind = "absent" THEN historyBefore
  ELSE IF file.kind \in {"garbage", "empty"} THEN EmptyObj
  ELSE file.val

\* test.location is there: without it test.location.file throws a TypeError
HasLocation(test) == "file" \in DOMAIN test

\* `${test.title}`: an undefined title reads "undefined"
TitleText(test) == IF "title" \in DOMAIN test THEN test.title ELSE "undefined"

getTestId(test) == test.file \o "::" \o TitleText(test)

(***************************************************************************)
(* Signal computation (onTestEnd, getFlakinessIndicator,                   *)
(* getPerformanceTrend).                                                   *)
(***************************************************************************)
Failures(entries) == Cardinality({i \in 1..Len(entries) : ~entries[i].passed})

RECURSIVE SumDurations(_)
SumDurations(entries) ==
  IF entries = <<>> THEN 0 ELSE SumDurations(SubSeq(entries, 1, Len(entries) - 1))
                                + entries[Len(entries)].duration

\* the indicator with the upper bound of each band included in it
getFlakinessIndicatorInclusive(score) ==
  IF ~FLess(StableBelow, score) THEN "Stable"
  ELSE IF ~FLess(UnstableBelow, score) THEN "Unstable"
  ELSE "Flaky"

getFlakinessIndicator(score) ==
  IF FLess(score, StableBelow) THEN "Stable"
  ELSE IF FLess(score, UnstableBelow) THEN "Unstable"
  ELSE "Flaky"

\* the classification of diff = (current - average) / average
TrendOf(diff, threshold) ==
  IF FLess(threshold, diff)
  THEN [kind |-> "slower", pct |-> RoundedText(FMul100(diff))]
  ELSE IF FLess(diff, FNeg(threshold))
  THEN [kind |-> "faster", pct |-> RoundedText(FMul100(FAbs(diff)))]
  ELSE [kind |-> "Stable", pct |-> ""]

\* the trend with the difference taken relative to the current duration
getPerformanceTrendOfCurrent(current, average, threshold) ==
  TrendOf(FDiv(FSub(current, average), current), threshold)

getPerformanceTrend(current, average, threshold) ==
  TrendOf(FDiv(FSub(current, average), average), threshold)

\* the fields onTestEnd adds to testData when this.history[testId] has entries
Scored(score, avg, duration, threshold) ==
  [flakinessScore     |-> score,
   flakinessIndicator |-> getFlakinessIndicator(score),
   averageDuration    |-> avg,
   performanceTrend   |-> getPerformanceTrend(FromInt(duration), avg, threshold)]

\* this.history[testId] || []
HistoryEntries(found) == IF Truthy(found) THEN found ELSE Arr(<<>>)

\* the fields with the score computed for an empty array too
SignalOfEmpty(found, duration, threshold) ==
  IF HistoryEntries(found).t = "arr"
  THEN Scored(FDiv(FromInt(Failures(HistoryEntries(found).items)),
                   FromInt(Len(HistoryEntries(found).items))),
              FDiv(FromInt(SumDurations(HistoryEntries(found).items)),
                   FromInt(Len(HistoryEntries(found).items))),
              duration, threshold)
  ELSE [flakinessIndicator |-> "New",
        performanceTrend   |-> [kind |-> "Baseline", pct |-> ""]]

\* the fields onTestEnd adds to testData from found = this.history[testId]
Signal(found, duration, threshold) ==
  IF HistoryEntries(found).t = "arr" /\ Len(HistoryEntries(found).items) > 0
  THEN Scored(FDiv(FromInt(Failures(HistoryEntries(found).items)),
                   FromInt(Len(HistoryEntries(found).items))),
              FDiv(FromInt(SumDurations(HistoryEntries(found).items)),
                   FromInt(Len(HistoryEntries(found).items))),
              duration, threshold)
  ELSE [flakinessIndicator |-> "New",
        performanceTrend   |-> [kind |-> "Baseline", pct |-> ""]]

\* testData.error and testData.errorStack, set for a failed or timed out test
\* with an error (an empty message is falsy)
ErrorFields(result) ==
  IF result.status \in {"failed", "timedOut"} /\ result.errors # <<>>
  THEN [error      |-> IF result.errors[1].message # "" THEN result.errors[1].message
                       ELSE "Unknown error",
        errorStack |-> result.errors[1].stack]
  ELSE [field \in {} |-> ""]

\* testData.title, undefined when the test has none
TitleField(test) ==
  IF "title" \in DOMAIN test THEN [title |-> test.title] ELSE [field \in {} |-> ""]

\* testData as onTestEnd pushes it
TestData(test, result, hist, threshold) ==
  [testId   |-> getTestId(test),
   file     |-> test.file,
   status   |-> result.status,
   duration |-> result.duration,
   retry    |-> result.retry]
  @@ TitleField(test)
  @@ ErrorFields(result)
  @@ Signal(Get(hist, getTestId(test)), result.duration, threshold)

(***************************************************************************)
(* updateHistory: the loop over this.results.  [h, threw]: this.history    *)
(* after the loop, and whether a TypeError ended it.                       *)
(***************************************************************************)
\* an entry that records every status but failed as passed
HistoryEntryUnlessFailed(result, timestamp) ==
  [passed |-> result.status # "failed", duration |-> result.duration, timestamp |-> timestamp]

HistoryEntry(result, timestamp) ==
  [passed |-> result.status = "passed", duration |-> result.duration, timestamp |-> timestamp]

\* one iteration for an object or array h
AppendEntry(h, result, timestamp, maxHistoryRuns) ==
  LET h1     == IF ~Truthy(Get(h, result.testId)) THEN Set(h, result.testId, Arr(<<>>)) ELSE h
      pushed == Append(Get(h1, result.testId).items, HistoryEntry(result, timestamp))
  IN  Set(h1, result.testId,
          Arr(IF Len(pushed) > maxHistoryRuns THEN Slice(pushed, -maxHistoryRuns) ELSE pushed))

RECURSIVE AppendAll(_, _, _, _)
AppendAll(h, rs, timestamp, maxHistoryRuns) ==
  IF rs = <<>> THEN [h |-> h, threw |-> FALSE]
  ELSE IF h.t \in {"null", "num"}
  THEN \* null[testId] throws; on a primitive the assignment (strict mode) throws
       [h |-> h, threw |-> TRUE]
  ELSE IF Truthy(Get(h, Head(rs).testId)) /\ Get(h, Head(rs).testId).t # "arr"
  THEN \* push is not a function
       [h |-> h, threw |-> TRUE]
  ELSE AppendAll(AppendEntry(h, Head(rs), timestamp, maxHistoryRuns), Tail(rs),
                 timestamp, maxHistoryRuns)


(***************************************************************************)
(* State.                                                                  *)
(***************************************************************************)
VARIABLES
  historyFile,  \* the file at options.historyFile
  report,       \* what this reporter wrote to options.outputFile, if anything
  options,      \* this.options
  aiKey,        \* which API key the process environment holds
  results,      \* this.results
  history,      \* this.history
  pc,           \* "none", "idle" (constructed), "collecting", "enriching", "done"
  pending,      \* addAiSuggestions: indices in results of the failed tests not yet analysed
  threw,        \* the calls of this reporter that threw: "onTestEnd", and within
                \* onEnd "writeReport", "updateHistory", "writeHistory"
  runs,         \* reporters constructed so far; the clock behind timestamps
  fileAtBegin,  \* history: the history file as onBegin found it
  loaded,       \* history: this.history as onBegin left it
  writes,       \* history: writes of the history file by this reporter
  chain,        \* history: the entries of the runs so far, while every run since an
                \* absent history file reported exactly one outcome, for one test,
                \* under one maxHistoryRuns, and persisted it
  events,       \* history: the test-completion events this reporter received
  requests,     \* history: the AI requests of this reporter, [index, ok] each
  peer          \* a second reporter process on the same history file

vars == <<historyFile, report, options, aiKey, results, history, pc, pending, threw,
          runs, fileAtBegin, loaded, writes, chain, events, requests, peer>>

NoReport == [kind |-> "none"]

NoOptions == [maxHistoryRuns |-> DefaultMaxHistoryRuns,
              performanceThreshold |-> DefaultPerformanceThreshold]

BrokenChain == [ok |-> FALSE, testId |-> "", max |-> 0, entries |-> <<>>, statuses |-> <<>>]

\* the second process before it starts
NoPeer == [pc |-> "none", history |-> EmptyObj, results |-> <<>>, last |-> FALSE]

\* one valid entry written by an earlier run
OldEntry(passed, duration) == [passed |-> passed, duration |-> duration, timestamp |-> 0]

\* history files a first run may find
InitialFiles ==
  { Absent, Garbage, Doc(Null), Doc(Num), Doc(Arr(<<>>)), Doc(EmptyObj),
    Doc(Obj([key \in {"a::b"} |-> Num])),
    Doc(Obj([key \in {"a::b"} |-> Arr(<<>>)])),
    Doc(Obj([key \in {"a::b"} |-> Arr(<<OldEntry(FALSE, 100)>>)])),
    Doc(Obj([key \in {"a::b"} |-> Arr(<<OldEntry(TRUE, 150), OldEntry(FALSE, 100)>>)])) }

Init ==
  /\ historyFile \in InitialFiles
  /\ report = NoReport
  /\ options = NoOptions
  /\ aiKey = "none"
  /\ results = <<>>
  /\ history = EmptyObj
  /\ pc = "none"
  /\ pending = <<>>
  /\ threw = {}
  /\ runs = 0
  /\ fileAtBegin = Absent
  /\ loaded = EmptyObj
  /\ writes = 0
  /\ chain = [BrokenChain EXCEPT !.ok = (historyFile = Absent)]
  /\ events = <<>>
  /\ requests = <<>>
  /\ peer = NoPeer

(***************************************************************************)
(* Actions.                                                                *)
(***************************************************************************)
\* new SmartReporter(options) in a new process; a reporter still collecting or
\* enriching is abandoned with its process
construct(maxHistoryRuns, key) ==
  /\ pc \in {"none", "collecting", "enriching", "done"}
  /\ runs < MaxRuns
  /\ runs' = runs + 1
  /\ options' = [maxHistoryRuns |-> maxHistoryRuns,
                 performanceThreshold |-> DefaultPerformanceThreshold]
  /\ aiKey' = key
  /\ results' = <<>>
  /\ history' = EmptyObj
  /\ pc' = "idle"
  /\ pending' = <<>>
  /\ threw' = {}
  /\ report' = NoReport
  /\ fileAtBegin' = Absent
  /\ loaded' = EmptyObj
  /\ writes' = 0
  /\ chain' = IF pc \in {"none", "done"} THEN chain ELSE BrokenChain
  /\ events' = <<>>
  /\ requests' = <<>>
  /\ UNCHANGED <<historyFile, peer>>

onBegin ==
  /\ pc = "idle"
  /\ history' = loadHistory(history, historyFile)
  /\ pc' = "collecting"
  /\ fileAtBegin' = historyFile
  /\ loaded' = history'
  /\ UNCHANGED <<historyFile, report, options, aiKey, results, pending, threw, runs,
                 writes, chain, events, requests, peer>>

\* retry as the host counts it: the earlier attempts of this test in this run
RetryOf(test) == Cardinality({i \in 1..Len(events) : events[i].test = test})

\* result.errors as the host gives them: one error for a failed or timed out
\* test, none otherwise
ErrorsOf(status) ==
  IF status \in {"failed", "timedOut"}
  THEN {<<[message |-> "boom", stack |-> "at a:1"]>>}
  ELSE {<<>>}

\* the TestResult values the host may report for test
TestResults(test, statuses, durations) ==
  UNION {{[status |-> status, duration |-> duration, retry |-> RetryOf(test),
           errors |-> errors] : duration \in durations, errors \in ErrorsOf(status)} :
         status \in statuses}

\* an onTestEnd that also appends the outcome to this.history
onTestEndUpdating(test, result) ==
  /\ pc = "collecting"
  /\ Len(events) < MaxEvents
  /\ events' = Append(events, [test |-> test, result |-> result])
  /\ history.t = "obj"
  /\ Get(history, getTestId(test)).t \in {"undefined", "arr"}
  /\ results' = Append(results, TestData(test, result, history,
                                        options.performanceThreshold))
  /\ history' = AppendEntry(history, [testId |-> getTestId(test), status |-> result.status,
                                      duration |-> result.duration],
                            runs, options.maxHistoryRuns)
  /\ UNCHANGED <<historyFile, report, options, aiKey, pc, pending, threw, runs,
                 fileAtBegin, loaded, writes, chain, requests, peer>>

\* an onTestEnd that also writes the history file
onTestEndPersisting(test, result) ==
  /\ pc = "collecting"
  /\ Len(events) < MaxEvents
  /\ events' = Append(events, [test |-> test, result |-> result])
  /\ history.t = "obj"
  /\ results' = Append(results, TestData(test, result, history,
                                        options.performanceThreshold))
  /\ historyFile' = Stringify(history)
  /\ writes' = writes + 1
  /\ UNCHANGED <<report, options, aiKey, history, pc, pending, threw, runs,
                 fileAtBegin, loaded, chain, requests, peer>>

onTestEnd(test, result) ==
  /\ pc = "collecting"
  /\ Len(events) < MaxEvents
  /\ events' = Append(events, [test |-> test, result |-> result])
  /\ IF ~HasLocation(test) \/ history.t = "null"
     THEN \* test.location.file, or this.history[testId], throws a TypeError
          /\ threw' = threw \cup {"onTestEnd"}
          /\ UNCHANGED results
     ELSE /\ results' = Append(results, TestData(test, result, history,
                                                 options.performanceThreshold))
          /\ UNCHANGED threw
  /\ UNCHANGED <<historyFile, report, options, aiKey, history, pc, pending, runs,
                 fileAtBegin, loaded, writes, chain, requests, peer>>

\* a filter that keeps every result
RECURSIVE AllTests(_, _)
AllTests(rs, i) == IF i > Len(rs) THEN <<>> ELSE <<i>> \o AllTests(rs, i + 1)

\* addAiSuggestions: the indices of failedTests
RECURSIVE FailedTests(_, _)
FailedTests(rs, i) ==
  IF i > Len(rs) THEN <<>>
  ELSE IF rs[i].status \in {"failed", "timedOut"} THEN <<i>> \o FailedTests(rs, i + 1)
  ELSE FailedTests(rs, i + 1)

\* generateHtml: the test cards
generateHtml(rs) == [kind |-> "html", tests |-> rs]

\* the chain after a run that ended with results rs
NextChain(rs, persisted) ==
  IF /\ chain.ok
     /\ persisted
     /\ Len(rs) = 1
     /\ chain.entries = <<>> \/ (chain.testId = rs[1].testId /\ chain.max = options.maxHistoryRuns)
  THEN [ok |-> TRUE, testId |-> rs[1].testId, max |-> options.maxHistoryRuns,
        entries |-> Append(chain.entries,
                           [passed |-> rs[1].status = "passed",
                            duration |-> rs[1].duration, timestamp |-> runs]),
        statuses |-> Append(chain.statuses, rs[1].status)]
  ELSE BrokenChain

\* a run-end step that updates the history before it writes the report
FinalizeHistoryFirst(rs, reportOk, historyOk) ==
  /\ results' = rs
  /\ pending' = <<>>
  /\ pc' = "done"
  /\ ~AppendAll(history, rs, runs, options.maxHistoryRuns).threw
  /\ historyOk
  /\ history' = AppendAll(history, rs, runs, options.maxHistoryRuns).h
  /\ writes' = writes + 1
  /\ historyFile' = Stringify(history')
  /\ report' = IF reportOk THEN generateHtml(rs) ELSE report
  /\ threw' = IF reportOk THEN threw ELSE threw \cup {"writeReport"}
  /\ chain' = NextChain(rs, TRUE)
  /\ UNCHANGED <<options, aiKey, runs, fileAtBegin, loaded, events, peer>>

\* onEnd after addAiSuggestions: generateHtml, the report write, updateHistory
Finalize(rs, reportOk, historyOk) ==
  LET u == AppendAll(history, rs, runs, options.maxHistoryRuns)
  IN  /\ results' = rs
      /\ pending' = <<>>
      /\ pc' = "done"
      /\ IF ~reportOk
         THEN \* fs.writeFileSync(outputPath, html) throws
              /\ threw' = threw \cup {"writeReport"}
              /\ chain' = BrokenChain
              /\ UNCHANGED <<report, history, historyFile, writes>>
         ELSE /\ report' = generateHtml(rs)
              /\ history' = u.h
              /\ writes' = IF u.threw THEN writes ELSE writes + 1
              /\ historyFile' \in
                   (IF u.threw THEN {historyFile}
                    ELSE IF historyOk THEN {Stringify(u.h)}
                    ELSE \* fs.writeFileSync(historyPath, text) throws: at the open,
                         \* after the open, or with a part of the text written
                         {historyFile, Truncated, Garbage})
              /\ threw' = IF u.threw THEN threw \cup {"updateHistory"}
                          ELSE IF ~historyOk THEN threw \cup {"writeHistory"}
                          ELSE threw
              /\ chain' = NextChain(rs, ~u.threw /\ historyOk)
      /\ UNCHANGED <<options, aiKey, runs, fileAtBegin, loaded, events, peer>>

onEnd ==
  /\ pc = "collecting"
  /\ IF FailedTests(results, 1) = <<>> \/ aiKey = "none"
     THEN \E reportOk \in BOOLEAN, historyOk \in BOOLEAN : Finalize(results, reportOk, historyOk)
     ELSE /\ pc' = "enriching"
          /\ pending' = FailedTests(results, 1)
          /\ UNCHANGED <<historyFile, report, options, aiKey, results, history, threw,
                         runs, fileAtBegin, loaded, writes, chain, events, peer>>
  /\ UNCHANGED requests

\* an addAiSuggestions without the try/catch: a failed request ends onEnd
aiResponseUncaught(ok) ==
  /\ pc = "enriching"
  /\ requests' = Append(requests, [index |-> Head(pending), ok |-> ok])
  /\ IF ~ok
     THEN /\ pc' = "done"
          /\ pending' = <<>>
          /\ threw' = threw \cup {"addAiSuggestions"}
          /\ UNCHANGED <<historyFile, report, options, aiKey, results, history,
                         runs, fileAtBegin, loaded, writes, chain, events, peer>>
     ELSE IF Tail(pending) = <<>>
     THEN \E reportOk \in BOOLEAN, historyOk \in BOOLEAN :
            Finalize([results EXCEPT ![Head(pending)] = [aiSuggestion |-> aiKey] @@ @],
                     reportOk, historyOk)
     ELSE /\ results' = [results EXCEPT ![Head(pending)] = [aiSuggestion |-> aiKey] @@ @]
          /\ pending' = Tail(pending)
          /\ UNCHANGED <<historyFile, report, options, aiKey, history, pc, threw,
                         runs, fileAtBegin, loaded, writes, chain, events, peer>>

\* the answer to the request for results[Head(pending)]: a suggestion, or a failure
aiResponse(ok) ==
  /\ pc = "enriching"
  /\ requests' = Append(requests, [index |-> Head(pending), ok |-> ok])
  /\ LET i  == Head(pending)
         rs == IF ok THEN [results EXCEPT ![i] = [aiSuggestion |-> aiKey] @@ @] ELSE results
     IN  IF Tail(pending) = <<>>
         THEN \E reportOk \in BOOLEAN, historyOk \in BOOLEAN : Finalize(rs, reportOk, historyOk)
         ELSE /\ results' = rs
              /\ pending' = Tail(pending)
              /\ UNCHANGED <<historyFile, report, options, aiKey, history, pc, threw,
                             runs, fileAtBegin, loaded, writes, chain, events, peer>>

Next ==
  \/ \E n \in 1..MaxRetention, key \in RunKeys : construct(n, key)
  \/ onBegin
  \/ \E test \in TestCases : \E result \in TestResults(test, RunStatuses, RunDurations) :
       onTestEnd(test, result)
  \/ onEnd
  \/ \E ok \in BOOLEAN : aiResponse(ok)

Spec == Init /\ [][Next]_vars

(***************************************************************************)
(* SpecSignal: one reporter with the constructor's defaults, over a        *)
(* history file that holds up to MaxPrior entries for one test, and one    *)
(* test-completion event of that test.                                     *)
(***************************************************************************)
SignalTest == [file |-> "a", title |-> "b"]

SignalDurations == {0} \cup 8..18

\* n entries, the first f of them failed, the first k of them of duration 15
\* and the others of duration 10
PriorHistory(n, f, k) ==
  [i \in 1..n |-> [passed |-> i > f, duration |-> IF i <= k THEN 15 ELSE 10,
                   timestamp |-> 0]]

\* n passed entries of duration 0
ZeroHistory(n) == [i \in 1..n |-> [passed |-> TRUE, duration |-> 0, timestamp |-> 0]]

SignalFiles ==
  { Doc(Obj([key \in {getTestId(SignalTest)} |-> Arr(PriorHistory(c[1], c[2], c[3]))])) :
      c \in {c \in (1..MaxPrior) \X (0..MaxPrior) \X (0..MaxPrior) :
               c[2] <= c[1] /\ c[3] <= c[1]} }
  \cup { Doc(Obj([key \in {getTestId(SignalTest)} |-> Arr(ZeroHistory(n))])) : n \in 1..2 }

InitSignal ==
  /\ historyFile \in SignalFiles
  /\ report = NoReport
  /\ options = NoOptions
  /\ aiKey = "none"
  /\ results = <<>>
  /\ history = EmptyObj
  /\ pc = "idle"
  /\ pending = <<>>
  /\ threw = {}
  /\ runs = 1
  /\ fileAtBegin = Absent
  /\ loaded = EmptyObj
  /\ writes = 0
  /\ chain = BrokenChain
  /\ events = <<>>
  /\ requests = <<>>
  /\ peer = NoPeer

NextSignal ==
  \/ onBegin
  \/ \E result \in TestResults(SignalTest, Statuses, SignalDurations) :
       results = <<>> /\ onTestEnd(SignalTest, result)
  \/ onEnd

SpecSignal == InitSignal /\ [][NextSignal]_vars

(***************************************************************************)
(* SpecConcurrent: a second reporter process with the constructor's        *)
(* defaults on the same history file.  Both processes load the file before *)
(* either persists.  The run-end write of the second process is taken in   *)
(* the two steps of fs.writeFileSync, the open that truncates the file and *)
(* the write, with the steps of the first process between them.            *)
(***************************************************************************)
\* the time of the run end of the second process
PeerTime == MaxRuns + 1

PeerResults ==
  {[status |-> "passed", duration |-> duration, retry |-> 0, errors |-> <<>>] :
     duration \in RunDurations}

\* constructor and onBegin of the second process
peerBegin ==
  /\ peer.pc = "none"
  /\ peer' = [peer EXCEPT !.pc = "collecting",
                          !.history = loadHistory(EmptyObj, historyFile)]
  /\ UNCHANGED <<historyFile, report, options, aiKey, results, history, pc, pending,
                 threw, runs, fileAtBegin, loaded, writes, chain, events, requests>>

\* onTestEnd of the second process
peerTestEnd(test, result) ==
  /\ peer.pc = "collecting"
  /\ peer.results = <<>>
  /\ peer' = [peer EXCEPT !.results = Append(@, TestData(test, result, peer.history,
                                                         DefaultPerformanceThreshold))]
  /\ UNCHANGED <<historyFile, report, options, aiKey, results, history, pc, pending,
                 threw, runs, fileAtBegin, loaded, writes, chain, events, requests>>

\* onEnd of the second process up to the open of the history file
peerOpen ==
  /\ peer.pc = "collecting"
  /\ ~AppendAll(peer.history, peer.results, PeerTime, DefaultMaxHistoryRuns).threw
  /\ peer' = [peer EXCEPT !.pc = "writing",
                          !.history = AppendAll(peer.history, peer.results, PeerTime,
                                                DefaultMaxHistoryRuns).h]
  /\ historyFile' = Truncated
  /\ UNCHANGED <<report, options, aiKey, results, history, pc, pending,
                 threw, runs, fileAtBegin, loaded, writes, chain, events, requests>>

\* the write of the second process; last: after the persist of the first
peerWrite ==
  /\ peer.pc = "writing"
  /\ historyFile' \in OverlaidBy(Stringify(peer.history), historyFile)
  /\ peer' = [peer EXCEPT !.pc = "done",
                          !.last = (pc = "done" /\ writes = 1 /\ "writeHistory" \notin threw)]
  /\ UNCHANGED <<report, options, aiKey, results, history, pc, pending,
                 threw, runs, fileAtBegin, loaded, writes, chain, events, requests>>

ConcurrentFiles == {Absent, Doc(Obj([key \in {"a::b"} |-> Arr(<<OldEntry(FALSE, 100)>>)]))}

InitConcurrent == Init /\ historyFile \in ConcurrentFiles

NextConcurrent ==
  \/ runs = 0 /\ construct(MaxRetention, "none")
  \/ onBegin
  \/ \E test \in TestCases : \E result \in TestResults(test, {"passed"}, RunDurations) :
       onTestEnd(test, result)
  \/ peer.pc # "none" /\ onEnd
  \/ peerBegin
  \/ \E test \in TestCases, result \in PeerResults : peerTestEnd(test, result)
  \/ pc \in {"collecting", "enriching", "done"} /\ peerOpen
  \/ peerWrite

SpecConcurrent == InitConcurrent /\ [][NextConcurrent]_vars

(***************************************************************************)
(* SpecOutcomes: runs from an absent history file, with outcomes of every  *)
(* status for one test and with events of a test that has no location and  *)
(* of a test that has no title.                                            *)
(***************************************************************************)
OutcomeCases == {SignalTest, [title |-> "b"], [file |-> "a"]}

OutcomeStatuses(test) == IF test = SignalTest THEN Statuses ELSE {"failed"}

InitOutcomes == Init /\ historyFile = Absent

NextOutcomes ==
  \/ construct(MaxRetention, "none")
  \/ onBegin
  \/ \E test \in OutcomeCases :
       \E result \in TestResults(test, OutcomeStatuses(test), RunDurations) :
         onTestEnd(test, result)
  \/ onEnd

SpecOutcomes == InitOutcomes /\ [][NextOutcomes]_vars

(***************************************************************************)
(* Properties.                                                             *)
(***************************************************************************)
\* the test identities a history value maps
Ids(h) == IF h.t \in {"obj", "arr"} THEN DOMAIN h.props ELSE {}

\* the sequence a history value holds for id; empty when it holds none
SequenceOf(h, id) == IF Get(h, id).t = "arr" THEN Get(h, id).items ELSE <<>>

\* the last n elements of s, in their order
LastN(s, n) == IF Len(s) <= n THEN s ELSE [i \in 1..n |-> s[Len(s) - n + i]]

\* the entries the outcomes rs give identity id, in arrival order
RECURSIVE EntriesOf(_, _, _)
EntriesOf(rs, id, timestamp) ==
  IF rs = <<>> THEN <<>>
  ELSE (IF Head(rs).testId = id
        THEN <<[passed |-> Head(rs).status = "passed", duration |-> Head(rs).duration,
                timestamp |-> timestamp]>>
        ELSE <<>>) \o EntriesOf(Tail(rs), id, timestamp)

\* the run-end history update of this reporter has been applied
Updated == pc = "done" /\ report # NoReport /\ "updateHistory" \notin threw

\* ... and the history file written
Persisted == Updated /\ "writeHistory" \notin threw

\* C1: after the run-end update every identity's sequence, in memory and in
\* the persisted file, is at most maxHistoryRuns long, whether or not the
\* identity produced an outcome in this run
RetentionBound ==
  /\ Updated => \A id \in Ids(history) :
                  Len(SequenceOf(history, id)) <= options.maxHistoryRuns
  /\ Persisted => \A id \in Ids(historyFile.val) :
                    Len(SequenceOf(historyFile.val, id)) <= options.maxHistoryRuns

\* C2: the run-end update leaves, for every identity with outcomes in the
\* run, the last maxHistoryRuns elements of its loaded sequence followed by its
\* new entries (appending one by one and keeping the last maxHistoryRuns each
\* time), the newest entry last, and leaves every other identity as loaded
FifoEviction ==
  Updated =>
    /\ Ids(history) = Ids(loaded) \cup {results[i].testId : i \in 1..Len(results)}
    /\ \A id \in Ids(history) :
         IF EntriesOf(results, id, runs) = <<>>
         THEN Get(history, id) = Get(loaded, id)
         ELSE Get(history, id) =
                Arr(LastN(SequenceOf(loaded, id) \o EntriesOf(results, id, runs),
                          options.maxHistoryRuns))

\* C2 witness: maxHistoryRuns = 2, a sequence [A, B] loaded, one append C: [B, C]
FifoEvictionWitness ==
  /\ Updated
  /\ options.maxHistoryRuns = 2
  /\ Len(results) = 1
  /\ Len(SequenceOf(loaded, results[1].testId)) = 2
  /\ SequenceOf(history, results[1].testId) =
       <<SequenceOf(loaded, results[1].testId)[2],
         [passed |-> results[1].status = "passed", duration |-> results[1].duration,
          timestamp |-> runs]>>

\* the entries of the loaded snapshot that failed
FailedIn(prior) == Cardinality({i \in 1..Len(prior) : prior[i].passed = FALSE})

\* the sum of the durations of the loaded entries
RECURSIVE TotalOf(_)
TotalOf(prior) == IF prior = <<>> THEN 0 ELSE prior[1].duration + TotalOf(Tail(prior))

\* f * 2^k in five limbs, for f below 2^15
ShiftedLeft(f, k) ==
  Carry([i \in 1..5 |-> IF i = (k \div 15) + 1 THEN f * 2^(k % 15) ELSE 0], 0)

\* |a - b| for five-limb numbers
Distance(a, b) == IF BigGeq(a, b) THEN BigSub(a, b) ELSE BigSub(b, a)

\* q is a double nearest to f / n: within half a unit in its last place
NearestTo(q, f, n) ==
  IF f = 0 THEN q.k = "zero"
  ELSE /\ q.k = "fin"
       /\ q.s = 1
       /\ q.e < 0
       /\ BigGeq(<<n * GuardHalf, 0, 0, 0, 0>>,
                 Distance(BigMulDigit(q.m, n), ShiftedLeft(f, -q.e)))

TrendClosedInterval ==
  \A i \in 1..Len(results) :
    LET prior == SequenceOf(loaded, results[i].testId)
        total == TotalOf(prior)
        n     == Len(prior)
        d     == results[i].duration
    IN  (n > 0 /\ total > 0) =>
          results[i].performanceTrend.kind =
            (IF 5 * n * d > 6 * total THEN "slower"
             ELSE IF 5 * n * d < 4 * total THEN "faster"
             ELSE "Stable")

\* C4 amended: d above avg * (1 + 1/5) is slower, d below avg * (1 - 1/5) is
\* faster, every d strictly between them is Stable, and at either endpoint the
\* trend is Stable or the class beyond that endpoint, as the rounding of the
\* double quotient (d - averageDuration) / averageDuration decides
TrendOpenInterval ==
  \A i \in 1..Len(results) :
    LET prior == SequenceOf(loaded, results[i].testId)
        total == TotalOf(prior)
        n     == Len(prior)
        d     == results[i].duration
        kind  == results[i].performanceTrend.kind
    IN  (n > 0 /\ total > 0) =>
          /\ 5 * n * d > 6 * total => kind = "slower"
          /\ 5 * n * d < 4 * total => kind = "faster"
          /\ (4 * total < 5 * n * d /\ 5 * n * d < 6 * total) => kind = "Stable"
          /\ 5 * n * d = 6 * total => kind \in {"Stable", "slower"}
          /\ 5 * n * d = 4 * total => kind \in {"Stable", "faster"}

\* C4 witness: the upper endpoint itself, d = avg * (1 + 1/5), found Stable
TrendOpenIntervalWitness ==
  \E i \in 1..Len(results) :
    /\ Len(SequenceOf(loaded, results[i].testId)) > 0
    /\ 5 * Len(SequenceOf(loaded, results[i].testId)) * results[i].duration
         = 6 * TotalOf(SequenceOf(loaded, results[i].testId))
    /\ results[i].performanceTrend.kind = "Stable"

\* C5: an outcome whose identity has no entries in the loaded snapshot is New
\* and Baseline and carries neither score nor average; an outcome whose
\* identity has entries carries both
NoHistoryCase ==
  \A i \in 1..Len(results) :
    IF SequenceOf(loaded, results[i].testId) = <<>>
    THEN /\ results[i].flakinessIndicator = "New"
         /\ results[i].performanceTrend.kind = "Baseline"
         /\ "flakinessScore" \notin DOMAIN results[i]
         /\ "averageDuration" \notin DOMAIN results[i]
    ELSE /\ "flakinessScore" \in DOMAIN results[i]
         /\ "averageDuration" \in DOMAIN results[i]

\* C5 witness: a run with an outcome of either kind, and for the first kind an
\* identity that is present with an empty sequence
NoHistoryCaseWitness ==
  /\ \E i \in 1..Len(results) :
       /\ results[i].testId \in Ids(loaded)
       /\ Get(loaded, results[i].testId) = Arr(<<>>)
       /\ results[i].flakinessIndicator = "New"
  /\ \E i \in 1..Len(results) :
       /\ results[i].testId \notin Ids(loaded)
       /\ results[i].performanceTrend.kind = "Baseline"

\* a history file that holds a mapping from identities to sequences
WellFormed(file) ==
  /\ file.kind = "json"
  /\ file.val.t = "obj"
  /\ \A id \in DOMAIN file.val.props : file.val.props[id].t = "arr"

\* C6: when the history file is missing or does not hold a mapping from
\* identities to sequences, the load yields the empty mapping, and neither a
\* test-completion event nor the run-end update throws
LoadTotal ==
  (pc \in {"collecting", "enriching", "done"} /\ ~WellFormed(fileAtBegin)) =>
    /\ loaded = EmptyObj
    /\ "onTestEnd" \notin threw
    /\ "updateHistory" \notin threw

\* the signal fields of a recorded outcome
SignalOf(r) ==
  [field \in DOMAIN r \cap {"flakinessScore", "flakinessIndicator", "averageDuration",
                             "performanceTrend"} |-> r[field]]

\* C7: while collecting and enriching this.history is the snapshot loaded at
\* run-begin, every outcome carries the signal of that snapshot, and two
\* outcomes of one identity with one duration carry the same signal
PreRunSnapshot ==
  pc \in {"collecting", "enriching"} =>
    /\ history = loaded
    /\ \A i \in 1..Len(results) :
         SignalOf(results[i]) = Signal(Get(loaded, results[i].testId), results[i].duration,
                                       options.performanceThreshold)
    /\ \A i, j \in 1..Len(results) :
         (results[i].testId = results[j].testId /\ results[i].duration = results[j].duration)
           => SignalOf(results[i]) = SignalOf(results[j])

\* C7 witness: a retry, with entries loaded for its identity
PreRunSnapshotWitness ==
  /\ pc = "collecting"
  /\ Len(results) = 2
  /\ results[1].testId = results[2].testId
  /\ results[2].retry = 1
  /\ "flakinessScore" \in DOMAIN results[2]

\* C8: a reporter writes the history file at most once, never while collecting
\* or enriching (the file then is as run-begin found it), and only at run end,
\* after the report has been written, with every append of the run applied
PersistDiscipline ==
  /\ writes <= 1
  /\ pc \in {"collecting", "enriching"} => (writes = 0 /\ historyFile = fileAtBegin)
  /\ writes = 1 => /\ pc = "done"
                   /\ report = generateHtml(results)
                   /\ Updated
                   /\ Persisted => historyFile = Stringify(history)

\* C8 witness: a run that ended and changed the file
PersistDisciplineWitness ==
  /\ Persisted
  /\ writes = 1
  /\ results # <<>>
  /\ historyFile # fileAtBegin

\* C9: after a run that loaded a missing or well-formed file and persisted,
\* the sequence of every identity with an outcome in the run is a tail of its
\* loaded sequence followed by exactly one entry of this run
OneEntryPerRun ==
  (Persisted /\ (fileAtBegin = Absent \/ WellFormed(fileAtBegin))) =>
    \A id \in {results[i].testId : i \in 1..Len(results)} :
      LET items == SequenceOf(historyFile.val, id)
          prior == SequenceOf(loaded, id)
      IN  /\ Len(items) >= 1
          /\ items[Len(items)].timestamp = runs
          /\ \E k \in 0..Len(prior) :
               SubSeq(items, 1, Len(items) - 1) = SubSeq(prior, k + 1, Len(prior))

\* the file after the runs of the chain
ChainDocument ==
  Obj([key \in {chain.testId} |-> Arr(LastN(chain.entries, chain.max))])

\* C10: after k >= 1 consecutive runs from an absent history file, each with
\* one outcome of the same test, the file holds the entries of the last
\* min(k, maxHistoryRuns) runs in run order, and the next run loads just that
MultiRunRetention ==
  (chain.ok /\ chain.entries # <<>>) =>
    /\ historyFile = Doc(ChainDocument)
    /\ pc \in {"collecting", "enriching"} => loaded = ChainDocument

\* C10 witness: maxHistoryRuns = 1 and two runs: only the entry of run 2 remains
MultiRunRetentionWitness ==
  /\ chain.ok
  /\ pc = "done"
  /\ Len(chain.entries) = 2
  /\ chain.max = 1
  /\ SequenceOf(historyFile.val, chain.testId) = <<chain.entries[2]>>
  /\ chain.entries[2].timestamp = 2

\* the indices of the requests made so far, in order
RequestedIndices == [k \in 1..Len(requests) |-> requests[k].index]

\* the run-end step went on to the report and, with the report written, to the
\* history update
Finalized ==
  /\ pc = "done"
  /\ report = generateHtml(results) \/ "writeReport" \in threw
  /\ report # NoReport => (writes = 1 \/ "updateHistory" \in threw)

\* C11: whichever enrichment requests fail, every failed or timed-out result
\* gets its own request, in order; a result carries a suggestion iff its request
\* succeeded; and the run goes on to render the report and update the history
EnrichmentIsolation ==
  /\ pc = "enriching" =>
       RequestedIndices \o pending = FailedTests(results, 1)
  /\ (pc = "done" /\ aiKey # "none") =>
       /\ RequestedIndices = FailedTests(results, 1)
       /\ \A k \in 1..Len(requests) :
            ("aiSuggestion" \in DOMAIN results[requests[k].index]) <=> requests[k].ok
       /\ Finalized

\* C11 witness: the first of two requests failed, the second succeeded and
\* attached its suggestion, the report was written and the history persisted
EnrichmentIsolationWitness ==
  /\ Persisted
  /\ Len(requests) = 2
  /\ ~requests[1].ok
  /\ requests[2].ok
  /\ "aiSuggestion" \notin DOMAIN results[1]
  /\ "aiSuggestion" \in DOMAIN results[2]
  /\ report.tests = results

\* C12: a failure to write the report or the history file at run end does not
\* escape the run-end handler as an unhandled error
WriteFailureContained ==
  pc = "done" => ("writeReport" \notin threw /\ "writeHistory" \notin threw)

\* C14: two recorded outcomes have the same key iff they have the same file
\* and the same title, whatever their retry index and position in the run
FaithfulKey ==
  \A i, j \in 1..Len(results) :
    (results[i].testId = results[j].testId)
      <=> (results[i].file = results[j].file /\ results[i].title = results[j].title)

\* the run has a failed or timed-out result
HasFailure == \E i \in 1..Len(results) : results[i].status \in {"failed", "timedOut"}

\* the phases a step may pass between; idle is a new reporter
PhaseOrder ==
  {<<"none", "idle">>, <<"idle", "collecting">>, <<"collecting", "collecting">>,
   <<"collecting", "enriching">>, <<"collecting", "done">>, <<"enriching", "enriching">>,
   <<"enriching", "done">>, <<"collecting", "idle">>, <<"enriching", "idle">>,
   <<"done", "idle">>}

\* C17, in a state: requests are made only for failed or timed-out results and
\* only with a key configured; none is pending when the run is done; the report
\* holds every attachment; the run-end step rendered and went on to persist
EnrichmentGate ==
  /\ \A k \in 1..Len(requests) :
       results[requests[k].index].status \in {"failed", "timedOut"}
  /\ (aiKey = "none" \/ ~HasFailure) => (requests = <<>> /\ pc # "enriching")
  /\ pc = "done" =>
       /\ pending = <<>>
       /\ Finalized
       /\ (aiKey # "none" /\ HasFailure) =>
            \A i \in 1..Len(results) :
              results[i].status \in {"failed", "timedOut"} =>
                \E k \in 1..Len(requests) : requests[k].index = i
  /\ report # NoReport => report.tests = results

\* C17, in a step: the phases follow Collecting -> [Enriching] -> Done, the
\* enriching phase is entered iff a key is configured and a result failed, and
\* nothing is requested or attached once the report is rendered
EnrichmentStep ==
  /\ <<pc, pc'>> \in PhaseOrder
  /\ (pc = "collecting" /\ pc' = "enriching") => (aiKey # "none" /\ HasFailure)
  /\ (pc = "collecting" /\ pc' = "done") => (aiKey = "none" \/ ~HasFailure)
  /\ (report # NoReport /\ pc' # "idle") => (results' = results /\ requests' = requests)

\* C17: enrichment gating and phase order
EnrichmentGating == []EnrichmentGate /\ [][EnrichmentStep]_vars

\* C17 witness: a run with a passed and a failed result and a key: one request,
\* for the failed one, its suggestion in the report, the history persisted
EnrichmentGatingWitness ==
  /\ Persisted
  /\ Len(results) = 2
  /\ results[1].status = "passed"
  /\ requests = <<[index |-> 2, ok |-> TRUE]>>
  /\ "aiSuggestion" \in DOMAIN report.tests[2]

\* C18: the results are the outcomes of the events received, one each in
\* arrival order; the report is rendered from them in that order; and the
\* persisted sequence of every identity ends with its entries of this run in
\* that order
ArrivalOrder ==
  /\ Len(results) = Len(events)
  /\ \A i \in 1..Len(results) :
       /\ results[i].testId = getTestId(events[i].test)
       /\ results[i].status = events[i].result.status
       /\ results[i].duration = events[i].result.duration
       /\ results[i].retry = events[i].result.retry
  /\ report # NoReport => report.tests = results
  /\ (Persisted /\ (fileAtBegin = Absent \/ WellFormed(fileAtBegin))) =>
       \A id \in {results[i].testId : i \in 1..Len(results)} :
         SequenceOf(historyFile.val, id) =
           LastN(SequenceOf(loaded, id) \o EntriesOf(results, id, runs),
                 options.maxHistoryRuns)

\* a test descriptor without a location or without a title
Incomplete(test) == ~HasLocation(test) \/ "title" \notin DOMAIN test

\* C13: an event of a test without location or title does not make the
\* handler throw; it is recorded without a computed signal; the events after
\* it are recorded and the run-end step takes place
TolerantOfIncomplete ==
  /\ "onTestEnd" \notin threw
  /\ Len(results) = Len(events)
  /\ \A i \in 1..Len(events) :
       Incomplete(events[i].test) =>
         DOMAIN results[i] \cap {"flakinessScore", "averageDuration"} = {}
  /\ pc = "done" => Finalized

\* the outcomes of the run for identity id, in arrival order
OutcomesOf(id) == SelectSeq(results, LAMBDA r : r.testId = id)

\* the last entries of seq are the entries of the outcomes new, as many of
\* them as the retention bound max lets in: passed iff the status is passed
DerivedFrom(seq, new, max) ==
  LET m == IF Len(new) <= max THEN Len(new) ELSE max
  IN  /\ Len(seq) >= m
      /\ \A k \in 1..m :
           LET entry   == seq[Len(seq) - m + k]
               outcome == new[Len(new) - m + k]
           IN  /\ entry.passed = (outcome.status = "passed")
               /\ outcome.status \in {"failed", "timedOut", "skipped", "interrupted"}
                    => entry.passed = FALSE
               /\ entry.duration = outcome.duration

\* the statuses other than passed among the entries the chain keeps
ChainFailures ==
  Cardinality({k \in 1..Len(LastN(chain.statuses, chain.max)) :
                 LastN(chain.statuses, chain.max)[k] # "passed"})

\* C16: the run-end update gives every outcome of the run an entry with
\* passed = (status is passed) and the outcome's duration, in memory and in
\* the file; and the next run scores an outcome of that test with every
\* earlier status other than passed counted as a failure
HistoryDerivation ==
  /\ Updated =>
       \A id \in {results[i].testId : i \in 1..Len(results)} :
         DerivedFrom(SequenceOf(history, id), OutcomesOf(id), options.maxHistoryRuns)
  /\ Persisted =>
       \A id \in {results[i].testId : i \in 1..Len(results)} :
         DerivedFrom(SequenceOf(historyFile.val, id), OutcomesOf(id), options.maxHistoryRuns)
  /\ (pc \in {"collecting", "enriching"} /\ chain.ok /\ chain.statuses # <<>>) =>
       \A i \in 1..Len(results) :
         results[i].testId = chain.testId =>
           NearestTo(results[i].flakinessScore, ChainFailures,
                     Len(LastN(chain.statuses, chain.max)))

\* C16 witness: a run recorded a skipped outcome, and the next run finds the
\* test Flaky on that one entry
HistoryDerivationWitness ==
  /\ pc = "collecting"
  /\ chain.ok
  /\ chain.statuses = <<"skipped">>
  /\ Len(results) = 1
  /\ results[1].testId = chain.testId
  /\ SequenceOf(loaded, chain.testId)[1].passed = FALSE
  /\ results[1].flakinessIndicator = "Flaky"

\* C15: the legend of the README: Stable below 10% of failures, Unstable from
\* 10% to 30%, both included, Flaky above 30%, New without history
ReadmeLegend ==
  \A i \in 1..Len(results) :
    LET prior == SequenceOf(loaded, results[i].testId)
        f     == FailedIn(prior)
        n     == Len(prior)
    IN  results[i].flakinessIndicator =
          (IF n = 0 THEN "New"
           ELSE IF 10 * f < n THEN "Stable"
           ELSE IF 10 * f <= 3 * n THEN "Unstable"
           ELSE "Flaky")

\* C20: with a non-empty loaded sequence, of durations all 0 too, the trend is
\* Stable, slower or faster, and the percentage of slower and faster is a
\* finite number
ZeroAverageHandled ==
  \A i \in 1..Len(results) :
    SequenceOf(loaded, results[i].testId) # <<>> =>
      /\ results[i].performanceTrend.kind \in {"Stable", "slower", "faster"}
      /\ results[i].performanceTrend.pct \notin {"NaN", "Infinity", "-Infinity"}
      /\ results[i].averageDuration.k \in {"zero", "fin"}

\* C19: with no write failing, the history file is at all times the complete
\* output of one persist (or as the runs found it), and once both processes
\* have persisted it is what the later of them wrote: its loaded snapshot with
\* its own entries
LastWriterWins ==
  /\ "writeHistory" \notin threw => historyFile.kind \in {"absent", "json"}
  /\ (Persisted /\ peer.pc = "done") =>
       historyFile = (IF peer.last THEN Stringify(peer.history) ELSE Stringify(history))

\* C21: when the write of the report fails at run end, the history update does
\* not take place: this.history is the snapshot loaded at run-begin, the
\* history file was not written and is exactly as run-begin found it
ReportFailureKeepsHistory ==
  "writeReport" \in threw =>
    /\ pc = "done"
    /\ report = NoReport
    /\ history = loaded
    /\ writes = 0
    /\ historyFile = fileAtBegin
    /\ "updateHistory" \notin threw
    /\ "writeHistory" \notin threw

\* C21 witness: a run with an outcome of a test that has an entry in the file,
\* its report write failed, the file still holds just that entry
ReportFailureKeepsHistoryWitness ==
  /\ "writeReport" \in threw
  /\ Len(results) = 1
  /\ WellFormed(fileAtBegin)
  /\ Len(SequenceOf(fileAtBegin.val, results[1].testId)) = 1
  /\ historyFile = fileAtBegin

====
